---- MODULE Spec2Model ----
(***************************************************************************)
(* A model of goravel.go: the application runtime's startup (Goravel.New), *)
(* its serving loop (Goravel.ListenAndServe), and the long-lived objects   *)
(* New wires together: the redis connection pool, the badger store, the    *)
(* cron scheduler and the mail channels.                                   *)
(*                                                                         *)
(* Pointers are strings: NIL, or the address of the one heap object of     *)
(* each kind the program allocates.  Heap objects are variables of their   *)
(* own, so that two pointers to one object (myRedisCache.Conn, redisPool)  *)
(* see the same state.                                                     *)
(***************************************************************************)
EXTENDS Integers, Sequences, FiniteSets

VARIABLES
    env,            \* the process environment as os.Getenv sees it
    pc,             \* position of the main goroutine
    proc,           \* "running", or how the process ended
    exitCode,       \* exit status once proc # "running"
    fresh,          \* TRUE iff New was called on a zero-valued Goravel
    grv,            \* the Goravel struct
    myRedisCache,   \* package variable (line 27)
    myBadgerCache,  \* package variable (line 28)
    redisPool,      \* package variable (line 29)
    badgerConn,     \* package variable (line 30)
    redisCacheObj,  \* the cache.RedisCache New allocates
    badgerCacheObj, \* the cache.BadgerCache New allocates
    poolObj,        \* the redis.Pool createRedisPool allocates
    badgerDB,       \* the badger store: "none", "open", "closed"
    sqlDB,          \* the database pool: "none", "open", "closed"
    cronObj,        \* the cron.Cron New allocates
    gcRunning,      \* instances of the value-log GC job now executing
    deferred,       \* ListenAndServe's stack of deferred calls
    errorOut,       \* lines written through an error logger
    mailWorker,     \* goroutines executing Mail.ListenForMail
    hist,           \* startup events of this run, in order
    dbOpenFailed,   \* OpenDB returned an error in New
    badgerOpenFailed, \* badger.Open returned an error in createBadgerConn
    dialLog,        \* the (host, password) pairs redis.Dial was called with
    jobs,           \* contents of the Mail.Jobs channel
    results,        \* contents of the Mail.Results channel
    workerMsg,      \* the message ListenForMail holds between receive and post
    nextId,         \* the next message an application goroutine sends
    consumed        \* results the application has received

vars == <<env, pc, proc, exitCode, fresh, grv, myRedisCache, myBadgerCache,
          redisPool, badgerConn, redisCacheObj, badgerCacheObj, poolObj,
          badgerDB, sqlDB, cronObj, gcRunning, deferred, errorOut, mailWorker,
          hist, dbOpenFailed, badgerOpenFailed, dialLog, jobs,
          results, workerMsg, nextId, consumed>>

poolVars == <<poolObj, dialLog>>
mailVars == <<jobs, results, workerMsg, nextId, consumed>>
cronVars == <<cronObj, gcRunning>>
endVars  == <<proc, exitCode, errorOut>>
heapVars == <<myRedisCache, myBadgerCache, redisPool, badgerConn,
              redisCacheObj, badgerCacheObj, badgerDB, sqlDB>>
flagVars == <<dbOpenFailed, badgerOpenFailed>>

NIL == "nil"

(***************************************************************************)
(* Bounds of the model.                                                    *)
(***************************************************************************)
\* GC runs the model lets overlap before it stops firing the trigger.
MaxGcRuns == 3
\* Messages the application sends on Mail.Jobs in one run.
MaxMsgs == 44

(***************************************************************************)
(* The environment: every variable New reads that a claim depends on.      *)
(***************************************************************************)
EnvSet ==
    [DATABASE_TYPE  : {"", "postgres"},
     CACHE          : {"", "redis", "badger"},
     SESSION_TYPE   : {"", "redis"},
     REDIS_HOST     : {"redis:6379"},
     REDIS_PASSWORD : {"s3cret"},
     REDIS_PREFIX   : {"app1", "app2"}]

Getenv(k) == env[k]

\* The zero value of the config struct (lines 52-61).
ZeroConfig ==
    [sessionType |-> "",
     database    |-> "",
     redis       |-> [host |-> "", password |-> "", prefix |-> ""]]

\* The zero value of the Goravel struct (lines 32-50).
ZeroGoravel ==
    [ErrorLog  |-> NIL,
     InfoLog   |-> NIL,
     DBPool    |-> NIL,
     DBType    |-> "",
     Scheduler |-> NIL,
     Cache     |-> NIL,
     config    |-> ZeroConfig,
     Mail      |-> [Jobs |-> NIL, JobsCap |-> 0, Results |-> NIL, ResultsCap |-> 0],
     Session   |-> [made |-> FALSE, RedisPool |-> NIL, DBPool |-> NIL],
     Render    |-> NIL]

NoPool ==
    [made |-> FALSE, MaxIdle |-> 0, MaxActive |-> 0, Wait |-> FALSE,
     active |-> 0, idle |-> 0, closed |-> FALSE]

NoCache == [made |-> FALSE, Conn |-> NIL, Prefix |-> ""]

NoCron == [made |-> FALSE, chain |-> {}, entries |-> {}, started |-> FALSE]

Init ==
    /\ env \in EnvSet
    /\ pc = "New_Init"
    /\ proc = "running"
    /\ exitCode = 0
    /\ fresh \in BOOLEAN
    /\ grv = IF fresh THEN ZeroGoravel
                      ELSE [ZeroGoravel EXCEPT !.ErrorLog = "preset"]
    /\ myRedisCache = NIL
    /\ myBadgerCache = NIL
    /\ redisPool = NIL
    /\ badgerConn = NIL
    /\ redisCacheObj = NoCache
    /\ badgerCacheObj = NoCache
    /\ poolObj = NoPool
    /\ badgerDB = "none"
    /\ sqlDB = "none"
    /\ cronObj = NoCron
    /\ gcRunning = 0
    /\ deferred = <<>>
    /\ errorOut = <<>>
    /\ mailWorker = 0
    /\ hist = <<>>
    /\ dbOpenFailed = FALSE
    /\ badgerOpenFailed = FALSE
    /\ dialLog = {}
    /\ jobs = <<>>
    /\ results = <<>>
    /\ workerMsg = 0
    /\ nextId = 1
    /\ consumed = 0

(***************************************************************************)
(* Process exit.  os.Exit ends the process at once: no deferred call runs. *)
(* A nil-pointer dereference is a run-time panic; an unrecovered panic     *)
(* ends the process with status 2.                                         *)
(***************************************************************************)
Running == proc = "running"

osExit(code) ==
    /\ proc' = "exited"
    /\ exitCode' = code

Panic ==
    /\ proc' = "panicked"
    /\ exitCode' = 2

\* (*log.Logger).Println / Printf: a nil receiver is dereferenced.
LoggerUsable(l) == l # NIL

(***************************************************************************)
(* Goravel.New, one action per statement group, in program order.          *)
(***************************************************************************)
\* An error return of New: the caller gets err, nothing else happens.
ReturnErr ==
    /\ pc' = "app_err"

\* Lines 76-80: grv.Init creates the folders; its error is returned.
NewInit ==
    /\ Running /\ pc = "New_Init"
    /\ \E ok \in BOOLEAN :
          IF ok THEN pc' = "New_checkDotEnv" ELSE ReturnErr
    /\ UNCHANGED <<env, fresh, grv, heapVars, poolVars, mailVars, cronVars,
                   endVars, deferred, mailWorker, hist, flagVars>>

\* Lines 82-85: checkDotEnv.
NewCheckDotEnv ==
    /\ Running /\ pc = "New_checkDotEnv"
    /\ \E ok \in BOOLEAN :
          IF ok THEN pc' = "New_godotenv" ELSE ReturnErr
    /\ UNCHANGED <<env, fresh, grv, heapVars, poolVars, mailVars, cronVars,
                   endVars, deferred, mailWorker, hist, flagVars>>

\* Lines 87-91: godotenv.Load.
NewLoadDotEnv ==
    /\ Running /\ pc = "New_godotenv"
    /\ \E ok \in BOOLEAN :
          IF ok THEN pc' = "New_OpenDB" ELSE ReturnErr
    /\ UNCHANGED <<env, fresh, grv, heapVars, poolVars, mailVars, cronVars,
                   endVars, deferred, mailWorker, hist, flagVars>>

\* Lines 93-105: connect to the database when DATABASE_TYPE is set.  On an
\* error the code calls grv.ErrorLog.Println(err) and then os.Exit(1).
NewOpenDB ==
    /\ Running /\ pc = "New_OpenDB"
    /\ IF Getenv("DATABASE_TYPE") = ""
       THEN /\ pc' = "New_cron"
            /\ UNCHANGED <<grv, sqlDB, endVars, dbOpenFailed>>
       ELSE \E ok \in BOOLEAN :
              IF ok
              THEN /\ sqlDB' = "open"
                   /\ grv' = [grv EXCEPT !.DBPool = "&SqlDB",
                                         !.DBType = Getenv("DATABASE_TYPE")]
                   /\ pc' = "New_cron"
                   /\ UNCHANGED <<endVars, dbOpenFailed>>
              ELSE /\ dbOpenFailed' = TRUE
                   /\ pc' = "New_dbFailed"
                   /\ IF LoggerUsable(grv.ErrorLog)
                      THEN /\ errorOut' = Append(errorOut, "OpenDB error")
                           /\ osExit(1)
                      ELSE /\ Panic
                           /\ UNCHANGED errorOut
                   /\ UNCHANGED <<grv, sqlDB>>
    /\ UNCHANGED <<env, fresh, myRedisCache, myBadgerCache, redisPool,
                   badgerConn, redisCacheObj, badgerCacheObj, badgerDB,
                   poolVars, mailVars, cronVars, deferred, mailWorker, hist,
                   badgerOpenFailed>>

\* cron.New() with the options the call passes: none, so no job wrapper.
cronNew == [made |-> TRUE, chain |-> {}, entries |-> {}, started |-> FALSE]

\* Lines 107-108.
NewCron ==
    /\ Running /\ pc = "New_cron"
    /\ cronObj' = cronNew
    /\ grv' = [grv EXCEPT !.Scheduler = "&Cron"]
    /\ pc' = "New_cacheRedis"
    /\ UNCHANGED <<env, fresh, heapVars, poolVars, mailVars, gcRunning,
                   endVars, deferred, mailWorker, hist, flagVars>>

RedisSelected == Getenv("CACHE") = "redis" \/ Getenv("SESSION_TYPE") = "redis"
BadgerSelected == Getenv("CACHE") = "badger"

\* The pool literal with Wait: true added to it.
createRedisPoolWaiting ==
    [made |-> TRUE, MaxIdle |-> 50, MaxActive |-> 10000, Wait |-> TRUE,
     active |-> 0, idle |-> 0, closed |-> FALSE]

\* Lines 357-375: the pool literal.  Wait is not set: its zero value.
createRedisPool ==
    [made |-> TRUE, MaxIdle |-> 50, MaxActive |-> 10000, Wait |-> FALSE,
     active |-> 0, idle |-> 0, closed |-> FALSE]

\* Lines 339-346: Prefix is read from g.config when the cache is built.
createClientRedisCache(g) ==
    [made |-> TRUE, Conn |-> "&Pool", Prefix |-> g.config.redis.prefix]

\* Lines 348-355, given the pointer createBadgerConn returned.
createClientBadgerCache(g, conn) ==
    [made |-> TRUE, Conn |-> conn, Prefix |-> g.config.redis.prefix]

\* Lines 110-115.
NewCacheRedis ==
    /\ Running /\ pc = "New_cacheRedis"
    /\ IF RedisSelected
       THEN /\ poolObj' = createRedisPool
            /\ redisCacheObj' = createClientRedisCache(grv)
            /\ myRedisCache' = "&RedisCache"
            /\ grv' = [grv EXCEPT !.Cache = "&RedisCache"]
            /\ redisPool' = redisCacheObj'.Conn
            /\ hist' = Append(hist, "redis_cache")
       ELSE UNCHANGED <<poolObj, redisCacheObj, myRedisCache, grv, redisPool,
                        hist>>
    /\ pc' = "New_cacheBadger"
    /\ UNCHANGED <<env, fresh, myBadgerCache, badgerConn, badgerCacheObj,
                   badgerDB, sqlDB, dialLog, mailVars, cronVars,
                   endVars, deferred, mailWorker, flagVars>>

\* The schedule descriptors cron's parser accepts without fields.
CronDescriptors == {"@yearly", "@annually", "@monthly", "@weekly", "@daily",
                    "@midnight", "@hourly"}

\* Lines 377-384: the error of badger.Open is dropped and nil returned.
createBadgerConn(opened) == IF opened THEN "&BadgerDB" ELSE NIL

\* Lines 116-127.
NewCacheBadger ==
    /\ Running /\ pc = "New_cacheBadger"
    /\ IF BadgerSelected
       THEN \E opened \in BOOLEAN :
              /\ badgerDB' = IF opened THEN "open" ELSE badgerDB
              /\ badgerOpenFailed' = ~opened
              /\ badgerCacheObj' =
                     createClientBadgerCache(grv, createBadgerConn(opened))
              /\ myBadgerCache' = "&BadgerCache"
              /\ grv' = [grv EXCEPT !.Cache = "&BadgerCache"]
              /\ badgerConn' = badgerCacheObj'.Conn
              /\ hist' = Append(hist, "badger_cache")
              /\ IF "@daily" \in CronDescriptors
                 THEN /\ cronObj' = [cronObj EXCEPT
                                        !.entries = @ \cup {"@daily"}]
                      /\ pc' = "New_loggers"
                 ELSE /\ ReturnErr
                      /\ UNCHANGED cronObj
       ELSE /\ pc' = "New_loggers"
            /\ UNCHANGED <<badgerDB, badgerOpenFailed, badgerCacheObj,
                           myBadgerCache, grv, badgerConn, hist, cronObj>>
    /\ UNCHANGED <<env, fresh, myRedisCache, redisPool, redisCacheObj,
                   sqlDB, poolVars, mailVars, gcRunning, endVars, deferred,
                   mailWorker, dbOpenFailed>>

\* Lines 129-136 and 295-303.
NewLoggers ==
    /\ Running /\ pc = "New_loggers"
    /\ grv' = [grv EXCEPT !.InfoLog = "infoLog", !.ErrorLog = "errorLog"]
    /\ hist' = Append(hist, "loggers")
    /\ pc' = "New_mailer"
    /\ UNCHANGED <<env, fresh, heapVars, poolVars, mailVars, cronVars,
                   endVars, deferred, mailWorker, flagVars>>

\* createMailer with both channels made with capacity 200.
createMailerCapacity200 ==
    [Jobs |-> "&Jobs", JobsCap |-> 200, Results |-> "&Results",
     ResultsCap |-> 200]

\* Lines 317-337: the two channels and their capacities.
createMailer ==
    [Jobs |-> "&Jobs", JobsCap |-> 20, Results |-> "&Results",
     ResultsCap |-> 20]

\* Lines 138-141.
NewMailer ==
    /\ Running /\ pc = "New_mailer"
    /\ grv' = [grv EXCEPT !.Mail = createMailer]
    /\ hist' = Append(hist, "mailer")
    /\ pc' = "New_config"
    /\ UNCHANGED <<env, fresh, heapVars, poolVars, mailVars, cronVars,
                   endVars, deferred, mailWorker, flagVars>>

\* Lines 143-163.
NewConfig ==
    /\ Running /\ pc = "New_config"
    /\ grv' = [grv EXCEPT !.config =
                  [sessionType |-> Getenv("SESSION_TYPE"),
                   database    |-> Getenv("DATABASE_TYPE"),
                   redis       |-> [host     |-> Getenv("REDIS_HOST"),
                                    password |-> Getenv("REDIS_PASSWORD"),
                                    prefix   |-> Getenv("REDIS_PREFIX")]]]
    /\ hist' = Append(hist, "config")
    /\ pc' = "New_session"
    /\ UNCHANGED <<env, fresh, heapVars, poolVars, mailVars, cronVars,
                   endVars, deferred, mailWorker, flagVars>>

\* Lines 165-216: server, session, views and renderer.
NewSession ==
    /\ Running /\ pc = "New_session"
    /\ grv' = [grv EXCEPT
                 !.Session =
                    [made |-> TRUE,
                     RedisPool |-> IF grv.config.sessionType = "redis"
                                   THEN redisCacheObj.Conn ELSE NIL,
                     DBPool |-> IF grv.config.sessionType \in
                                     {"mysql", "postgres", "mariadb",
                                      "postgresql"}
                                THEN grv.DBPool ELSE NIL],
                 !.Render = "&Render"]
    /\ pc' = "New_goMail"
    /\ UNCHANGED <<env, fresh, heapVars, poolVars, mailVars, cronVars,
                   endVars, deferred, mailWorker, hist, flagVars>>

\* Line 218 without the go statement: nothing is started.
NewGoListenForMailOmitted ==
    /\ Running /\ pc = "New_goMail"
    /\ pc' = "New_return"
    /\ UNCHANGED <<env, fresh, grv, heapVars, poolVars, mailVars, cronVars,
                   endVars, deferred, mailWorker, hist, flagVars>>

\* Line 218: go grv.Mail.ListenForMail().
NewGoListenForMail ==
    /\ Running /\ pc = "New_goMail"
    /\ mailWorker' = mailWorker + 1
    /\ hist' = Append(hist, "worker_start")
    /\ pc' = "New_return"
    /\ UNCHANGED <<env, fresh, grv, heapVars, poolVars, mailVars, cronVars,
                   endVars, deferred, flagVars>>

\* Line 220: return nil.
NewReturnNil ==
    /\ Running /\ pc = "New_return"
    /\ pc' = "app_ready"
    /\ UNCHANGED <<env, fresh, grv, heapVars, poolVars, mailVars, cronVars,
                   endVars, deferred, mailWorker, hist, flagVars>>

New ==
    \/ NewInit
    \/ NewCheckDotEnv
    \/ NewLoadDotEnv
    \/ NewOpenDB
    \/ NewCron
    \/ NewCacheRedis
    \/ NewCacheBadger
    \/ NewLoggers
    \/ NewMailer
    \/ NewConfig
    \/ NewSession
    \/ NewGoListenForMail
    \/ NewReturnNil

(***************************************************************************)
(* Goravel.ListenAndServe, called by the application once New returned nil.*)
(***************************************************************************)
\* Lines 249-260: the Close calls the function defers, in defer order.
DeferredCloses ==
    (IF grv.DBPool # NIL THEN <<"sqlDB.Close">> ELSE <<>>)
    \o (IF redisPool # NIL THEN <<"redisPool.Close">> ELSE <<>>)
    \o (IF badgerConn # NIL THEN <<"badgerConn.Close">> ELSE <<>>)

\* Lines 240-262: build the server, register the deferred closes, log.
LSSetup ==
    /\ Running /\ pc = "app_ready"
    /\ deferred' = DeferredCloses
    /\ IF LoggerUsable(grv.InfoLog)
       THEN /\ pc' = "LS_serving"
            /\ UNCHANGED endVars
       ELSE /\ Panic
            /\ UNCHANGED <<pc, errorOut>>
    /\ UNCHANGED <<env, fresh, grv, heapVars, poolVars, mailVars, cronVars,
                   mailWorker, hist, flagVars>>

\* Line 263: srv.ListenAndServe() returns; it always returns a non-nil error.
LSServeReturns ==
    /\ Running /\ pc = "LS_serving"
    /\ pc' = "LS_fatal"
    /\ UNCHANGED <<env, fresh, grv, heapVars, poolVars, mailVars, cronVars,
                   endVars, deferred, mailWorker, hist, flagVars>>

\* Line 264: grv.ErrorLog.Fatal(err) writes err and calls os.Exit(1).  The
\* deferred calls stay on the stack: os.Exit does not run them.
LSFatal ==
    /\ Running /\ pc = "LS_fatal"
    /\ IF LoggerUsable(grv.ErrorLog)
       THEN /\ errorOut' = Append(errorOut, "ListenAndServe error")
            /\ osExit(1)
       ELSE /\ Panic
            /\ UNCHANGED errorOut
    /\ pc' = "LS_exited"
    /\ UNCHANGED <<env, fresh, grv, heapVars, poolVars, mailVars, cronVars,
                   deferred, mailWorker, hist, flagVars>>

(***************************************************************************)
(* The scheduler.  New creates it and registers the GC job; the            *)
(* application starts it.  cron runs every due entry in a goroutine of its *)
(* own, through the job wrappers of the chain given to cron.New.           *)
(***************************************************************************)
\* The application's grv.Scheduler.Start().
SchedulerStart ==
    /\ Running /\ pc = "app_ready"
    /\ grv.Scheduler # NIL /\ cronObj.made /\ ~cronObj.started
    /\ cronObj' = [cronObj EXCEPT !.started = TRUE]
    /\ hist' = Append(hist, "scheduler_start")
    /\ UNCHANGED <<env, pc, fresh, grv, heapVars, poolVars, mailVars,
                   gcRunning, endVars, deferred, mailWorker, flagVars>>

\* The "@daily" entry comes due.  Lines 121-123: the job calls
\* myBadgerCache.Conn.RunValueLogGC(0.7), a method of a possibly nil *DB.
CronTrigger ==
    /\ Running
    /\ cronObj.started /\ "@daily" \in cronObj.entries
    /\ gcRunning < MaxGcRuns
    /\ IF "SkipIfStillRunning" \in cronObj.chain /\ gcRunning > 0
       THEN UNCHANGED <<gcRunning, endVars>>
       ELSE IF badgerCacheObj.Conn = NIL
            THEN /\ Panic
                 /\ UNCHANGED <<gcRunning, errorOut>>
            ELSE /\ gcRunning' = gcRunning + 1
                 /\ UNCHANGED endVars
    /\ UNCHANGED <<env, pc, fresh, grv, heapVars, poolVars, mailVars,
                   cronObj, deferred, mailWorker, hist, flagVars>>

\* One running instance of the GC job returns.
GcDone ==
    /\ Running
    /\ gcRunning > 0
    /\ gcRunning' = gcRunning - 1
    /\ UNCHANGED <<env, pc, fresh, grv, heapVars, poolVars, mailVars,
                   cronObj, endVars, deferred, mailWorker, hist, flagVars>>

Next ==
    \/ New
    \/ LSSetup
    \/ LSServeReturns
    \/ LSFatal
    \/ SchedulerStart
    \/ CronTrigger
    \/ GcDone

Spec == Init /\ [][Next]_vars

(***************************************************************************)
(* The redis pool in use.  The application's goroutines reach it through   *)
(* the cache and the session store once New has returned.  The pool is     *)
(* redigo's: active counts the open connections, idle ones included.  Get  *)
(* closes, one at a time and with the pool unlocked in between, the idle   *)
(* connections that are stale (IdleTimeout) or fail TestOnBorrow; it       *)
(* reuses the first idle connection that passes, and only with none left   *)
(* does it look at the ceiling and dial.                                   *)
(***************************************************************************)
PoolInUse == poolObj.active - poolObj.idle

\* The address a Dial closure that copied the configuration when the pool
\* was built would use.
DialAddrAtConstruction ==
    [host |-> ZeroConfig.redis.host, password |-> ZeroConfig.redis.password]

\* Lines 362-368: the Dial closure reads grv.config when it is called.
DialAddr ==
    [host |-> grv.config.redis.host, password |-> grv.config.redis.password]

AppRunning == Running /\ pc = "app_ready"

\* What Get returns from pool p, and the pool it leaves, once its idle loop
\* is past the connections it closes.  dialed: whether redis.Dial succeeds.
\* "blocked": the caller waits (Wait set, ceiling reached).
GetOutcome(p, dialed) ==
    IF p.idle > 0
    THEN [result |-> "conn", dials |-> FALSE,
          pool |-> [p EXCEPT !.idle = @ - 1]]
    ELSE IF p.closed
    THEN [result |-> "closed pool", dials |-> FALSE, pool |-> p]
    ELSE IF p.MaxActive > 0 /\ p.active >= p.MaxActive
    THEN IF p.Wait
         THEN [result |-> "blocked", dials |-> FALSE, pool |-> p]
         ELSE [result |-> "ErrPoolExhausted", dials |-> FALSE, pool |-> p]
    ELSE IF dialed
    THEN [result |-> "conn", dials |-> TRUE,
          pool |-> [p EXCEPT !.active = @ + 1]]
    ELSE [result |-> "dial error", dials |-> TRUE, pool |-> p]

\* One turn of Get's idle loop that closes the connection it looked at.
PoolDiscardIdle ==
    /\ AppRunning /\ redisPool # NIL /\ poolObj.made
    /\ poolObj.idle > 0
    /\ poolObj' = [poolObj EXCEPT !.idle = @ - 1, !.active = @ - 1]
    /\ UNCHANGED <<env, pc, fresh, grv, heapVars, mailVars, cronVars, endVars,
                   deferred, mailWorker, hist, flagVars, dialLog>>

\* redisPool.Get() returns.
PoolGet ==
    /\ AppRunning /\ redisPool # NIL /\ poolObj.made
    /\ \E dialed \in BOOLEAN :
         LET o == GetOutcome(poolObj, dialed)
         IN  /\ o.result # "blocked"
             /\ poolObj' = o.pool
             /\ dialLog' = IF o.dials THEN dialLog \cup {DialAddr} ELSE dialLog
    /\ UNCHANGED <<env, pc, fresh, grv, heapVars, mailVars, cronVars, endVars,
                   deferred, mailWorker, hist, flagVars>>

\* A checked-out connection is closed by its holder: it goes back to the idle
\* list, unless it is broken; the list is trimmed to MaxIdle.
PoolPut ==
    /\ AppRunning /\ redisPool # NIL /\ poolObj.made
    /\ PoolInUse > 0
    /\ \E broken \in BOOLEAN :
         IF ~broken /\ ~poolObj.closed
         THEN IF poolObj.idle + 1 > poolObj.MaxIdle
              THEN poolObj' = [poolObj EXCEPT !.active = @ - 1]
              ELSE poolObj' = [poolObj EXCEPT !.idle = @ + 1]
         ELSE poolObj' = [poolObj EXCEPT !.active = @ - 1]
    /\ UNCHANGED <<env, pc, fresh, grv, heapVars, mailVars, cronVars, endVars,
                   deferred, mailWorker, hist, flagVars, dialLog>>

\* One application: redis for cache and sessions, no database.
RedisAppEnv ==
    [DATABASE_TYPE |-> "", CACHE |-> "redis", SESSION_TYPE |-> "redis",
     REDIS_HOST |-> "redis:6379", REDIS_PASSWORD |-> "s3cret",
     REDIS_PREFIX |-> "app1"]

InitRedisApp == Init /\ env = RedisAppEnv /\ fresh

NextPool ==
    \/ New
    \/ PoolGet
    \/ PoolDiscardIdle
    \/ PoolPut

SpecPool == InitRedisApp /\ [][NextPool]_vars

(***************************************************************************)
(* The mail channels in use.  grv.Mail.Jobs and grv.Mail.Results are Go    *)
(* buffered channels: a send completes only while the buffer holds fewer   *)
(* items than its capacity and otherwise blocks the sender; a receive      *)
(* takes the oldest item.  Messages are numbered in the order sent.        *)
(***************************************************************************)
\* ch <- v can complete on a channel of capacity cap holding buf.
CanSend(buf, cap) == Len(buf) < cap

\* An application goroutine executes grv.Mail.Jobs <- msg.
Enqueue ==
    /\ AppRunning /\ grv.Mail.Jobs # NIL
    /\ nextId <= MaxMsgs
    /\ CanSend(jobs, grv.Mail.JobsCap)
    /\ jobs' = Append(jobs, nextId)
    /\ nextId' = nextId + 1
    /\ UNCHANGED <<env, pc, fresh, grv, heapVars, poolVars, cronVars, endVars,
                   deferred, mailWorker, hist, flagVars, results, workerMsg,
                   consumed>>

\* ListenForMail receives the next message from Jobs and sends it.
WorkerReceive ==
    /\ Running /\ mailWorker > 0
    /\ workerMsg = 0 /\ jobs # <<>>
    /\ workerMsg' = Head(jobs)
    /\ jobs' = Tail(jobs)
    /\ UNCHANGED <<env, pc, fresh, grv, heapVars, poolVars, cronVars, endVars,
                   deferred, mailWorker, hist, flagVars, results, nextId,
                   consumed>>

\* ListenForMail posts the outcome of the message it holds to Results.
WorkerPost ==
    /\ Running /\ mailWorker > 0
    /\ workerMsg # 0
    /\ CanSend(results, grv.Mail.ResultsCap)
    /\ results' = Append(results, workerMsg)
    /\ workerMsg' = 0
    /\ UNCHANGED <<env, pc, fresh, grv, heapVars, poolVars, cronVars, endVars,
                   deferred, mailWorker, hist, flagVars, jobs, nextId,
                   consumed>>

\* An application goroutine receives from grv.Mail.Results.
ConsumeResult ==
    /\ AppRunning /\ grv.Mail.Results # NIL
    /\ results # <<>>
    /\ results' = Tail(results)
    /\ consumed' = consumed + 1
    /\ UNCHANGED <<env, pc, fresh, grv, heapVars, poolVars, cronVars, endVars,
                   deferred, mailWorker, hist, flagVars, jobs, nextId,
                   workerMsg>>

NextMail ==
    \/ New
    \/ Enqueue
    \/ WorkerReceive
    \/ WorkerPost
    \/ ConsumeResult

SpecMail == InitRedisApp /\ [][NextMail]_vars

(***************************************************************************)
(* Properties.                                                             *)
(***************************************************************************)
\* New has returned nil to the application.
NewReturnedNil == pc \in {"app_ready", "LS_serving", "LS_fatal", "LS_exited"}

Events == {hist[i] : i \in DOMAIN hist}
Positions(e) == {i \in DOMAIN hist : hist[i] = e}
\* Every occurrence of event b comes after an occurrence of event a.
Precedes(a, b) ==
    \A i \in Positions(b) : \E j \in Positions(a) : j < i

\* C1: once New has returned nil, every cache it built (redis or badger)
\* carries the configured REDIS_PREFIX as its Prefix.
C1_PrefixIsConfigured ==
    NewReturnedNil =>
        /\ redisCacheObj.made => redisCacheObj.Prefix = Getenv("REDIS_PREFIX")
        /\ badgerCacheObj.made => badgerCacheObj.Prefix = Getenv("REDIS_PREFIX")

\* C2: when ListenAndServe has ended the process through the fatal log, the
\* database pool, the redis pool and the badger store that were built are
\* all closed.
C2_PoolsClosedAtExit ==
    pc = "LS_exited" =>
        /\ sqlDB # "open"
        /\ poolObj.made => poolObj.closed
        /\ badgerDB # "open"

\* C3: at most one instance of the GC job registered by New executes at any
\* time.
C3_AtMostOneGcInstance == gcRunning <= 1

\* C4 as claimed: the connections checked out never exceed 10000, and with
\* 10000 checked out a Get does not return: the caller blocks.
C4_GetBlocksAtCeiling ==
    /\ PoolInUse <= 10000
    /\ (AppRunning /\ poolObj.made /\ PoolInUse = 10000) => ~ENABLED PoolGet

\* C4 as amended: the connections checked out never exceed 10000, and with
\* 10000 checked out a Get does not block: it returns ErrPoolExhausted at
\* once, whatever a dial would do, and leaves the pool as it was.
C4_GetFailsAtCeiling ==
    /\ PoolInUse <= 10000
    /\ poolObj.active <= 10000
    /\ (AppRunning /\ poolObj.made /\ PoolInUse = 10000) =>
          /\ ENABLED PoolGet
          /\ \A dialed \in BOOLEAN :
                /\ GetOutcome(poolObj, dialed).result = "ErrPoolExhausted"
                /\ GetOutcome(poolObj, dialed).pool = poolObj

\* C4 witness: the ceiling is reached, 10000 connections are checked out.
C4_AtCeiling == AppRunning /\ poolObj.made /\ PoolInUse = 10000

\* C5: a selected cache backend is built before the mail worker and before
\* the scheduler are started, the mailer is created before the worker is
\* started, the worker has been started exactly once when New has returned
\* nil, and not at all when New has returned an error.
C5_StartupOrder ==
    /\ RedisSelected => /\ Precedes("redis_cache", "worker_start")
                        /\ Precedes("redis_cache", "scheduler_start")
    /\ BadgerSelected => /\ Precedes("badger_cache", "worker_start")
                         /\ Precedes("badger_cache", "scheduler_start")
    /\ Precedes("mailer", "worker_start")
    /\ NewReturnedNil => /\ Cardinality(Positions("worker_start")) = 1
                         /\ mailWorker = 1
    /\ pc = "app_err" => /\ Positions("worker_start") = {}
                         /\ mailWorker = 0

\* C5 witness: New returned nil with both backends selected, the worker
\* running, and the application has started the scheduler.
C5_StartedAfterBackends ==
    /\ pc = "app_ready" /\ RedisSelected /\ BadgerSelected
    /\ mailWorker = 1 /\ cronObj.started

\* C6: when the process has shut down through ListenAndServe, or a pool has
\* been closed, no goroutine is still executing the mail worker: it was
\* stopped first.
C6_WorkerStoppedAtShutdown ==
    (pc = "LS_exited" \/ poolObj.closed \/ sqlDB = "closed"
        \/ badgerDB = "closed") => mailWorker = 0

\* C7: when New is called on a zero-valued Goravel and OpenDB fails, the
\* error is written through the error logger and the process exits with
\* status 1.
C7_DbFailureLoggedThenExit1 ==
    (fresh /\ dbOpenFailed) =>
        /\ proc = "exited" /\ exitCode = 1
        /\ errorOut = <<"OpenDB error">>

\* C8: when badger is selected and the store cannot be opened, New does not
\* return nil, no badger cache with a nil store is installed as grv.Cache,
\* and no GC job is registered against a nil store.
C8_BadgerFailureStopsStartup ==
    badgerOpenFailed =>
        /\ ~NewReturnedNil
        /\ ~(grv.Cache = "&BadgerCache" /\ badgerCacheObj.Conn = NIL)
        /\ ~("@daily" \in cronObj.entries /\ badgerCacheObj.Conn = NIL)

\* The messages sent so far, oldest first, are exactly: those whose result
\* was received, the results waiting, the message the worker holds, and the
\* jobs waiting.  None was dropped, duplicated or reordered.
NoMessageLost ==
    LET held == IF workerMsg = 0 THEN <<>> ELSE <<workerMsg>>
        inFlight == results \o held \o jobs
    IN  /\ Len(inFlight) = nextId - 1 - consumed
        /\ \A i \in DOMAIN inFlight : inFlight[i] = consumed + i

\* C9: Jobs and Results never hold more than 20 items each, no message is
\* dropped, and a send into a full channel does not complete: while Jobs
\* holds 20 no message is sent, while Results holds 20 the worker keeps the
\* message it holds.
C9_ChannelsBoundedAndBlocking ==
    /\ [](Len(jobs) <= 20 /\ Len(results) <= 20 /\ NoMessageLost)
    /\ [][Len(jobs) = 20 => nextId' = nextId]_vars
    /\ [][(Len(results) = 20 /\ workerMsg # 0) => workerMsg' = workerMsg]_vars

\* C9 witness: both channels are full, the worker holds a message it cannot
\* post, and the application still has messages to send.
C9_BothFull ==
    /\ Len(jobs) = 20 /\ Len(results) = 20
    /\ workerMsg # 0 /\ nextId <= MaxMsgs

\* C10: every dial uses the configured REDIS_HOST and REDIS_PASSWORD, and no
\* dial happens while the pool exists and grv.config is not yet assigned.
C10_DialsUseConfiguredAddress ==
    /\ dialLog \subseteq {[host |-> Getenv("REDIS_HOST"),
                           password |-> Getenv("REDIS_PASSWORD")]}
    /\ (poolObj.made /\ "config" \notin Events) => dialLog = {}

\* C10 witness: the pool, built before grv.config was assigned, has dialed.
C10_HasDialed ==
    /\ dialLog # {}
    /\ Precedes("redis_cache", "config") /\ "config" \in Events

====
